---------------------------- MODULE Spec2Model ----------------------------
(***************************************************************************)
(* Heart Health Assessment: the React front end (App, ManualForm,          *)
(* UploadCard, ResultCard, the axios client) as a state machine, together  *)
(* with the prediction service it calls.  The service's code is not part   *)
(* of the sources at hand; its operators are written from the design       *)
(* document and are marked as such where they are defined.                 *)
(***************************************************************************)
EXTENDS Integers, Sequences, FiniteSets, TLC

VARIABLES
    currentState,   \* App: 'upload' | 'manual' | 'result' | 'loading'
    prediction,     \* App: HeartDiseasePrediction | null
    error,          \* App: string | null
    extractedData,  \* App: HeartDiseaseInput | null
    formData,       \* ManualForm state (Null while the form is not mounted)
    isSubmitting,   \* ManualForm state
    isUploading,    \* UploadCard state
    uploadResult,   \* UploadCard state: UploadResponse | null
    uploadReqs,     \* upload requests in flight: [live, stale]
    predictReqs,    \* predict requests in flight: set of [id, data]
    service,        \* the prediction service's loaded model: [primary, fallback]
    served,         \* history: [data, result] of every predict request answered
    shownFor,       \* history: the request whose response is in prediction
    lastOp,         \* history: the handler that ran last, with its inputs
    supplied,       \* history: what was last supplied for each form field
    inputs,         \* history: how many drops, edits and submits have happened
    probe           \* a request put to the service directly (none in the App)

vars == <<currentState, prediction, error, extractedData, formData, isSubmitting,
          isUploading, uploadResult, uploadReqs, predictReqs, service, served,
          shownFor, lastOp, supplied, inputs, probe>>

-----------------------------------------------------------------------------
(* Bounds of the model. *)

\* User inputs (files dropped, fields edited, forms submitted) in one run,
\* and how many of them may be edits of a field.
MaxInputs == 3
MaxEdits == 1

Count(n) == n.drops + n.edits + n.submits

-----------------------------------------------------------------------------
(* null / undefined, and a present value.  JavaScript's null is not a      *)
(* member of any of the value sets below.                                  *)

Null == <<>>
Some(v) == <<v>>
Get(o) == o[1]

-----------------------------------------------------------------------------
(* The Feature Schema (HeartDiseaseInput). *)

ContinuousFields == <<"age", "cholesterol", "blood_pressure", "heart_rate",
                      "stress_level", "blood_sugar", "exercise_hours">>

CategoricalFields == {"gender", "smoking", "alcohol_intake", "chest_pain_type"}

BooleanFields == {"family_history", "diabetes", "obesity", "exercise_induced_angina"}

Continuous == {ContinuousFields[i] : i \in DOMAIN ContinuousFields}

Fields == Continuous \cup CategoricalFields \cup BooleanFields

Enumeration ==
    [gender |-> {"Male", "Female"},
     smoking |-> {"Never", "Former", "Current"},
     alcohol_intake |-> {"None", "Moderate", "Heavy"},
     chest_pain_type |-> {"Typical Angina", "Atypical Angina",
                          "Non-anginal Pain", "Asymptomatic"}]

MinOf ==
    [age |-> 18, cholesterol |-> 100, blood_pressure |-> 60, heart_rate |-> 40,
     stress_level |-> 1, blood_sugar |-> 70, exercise_hours |-> 0]

MaxOf ==
    [age |-> 120, cholesterol |-> 600, blood_pressure |-> 250, heart_rate |-> 200,
     stress_level |-> 10, blood_sugar |-> 300, exercise_hours |-> 24]

RangeMessage ==
    [age |-> "Age must be between 18 and 120",
     cholesterol |-> "Cholesterol must be between 100 and 600 mg/dL",
     blood_pressure |-> "Blood pressure must be between 60 and 250 mmHg",
     heart_rate |-> "Heart rate must be between 40 and 200 bpm",
     stress_level |-> "Stress level must be between 1 and 10",
     blood_sugar |-> "Blood sugar must be between 70 and 300 mg/dL",
     exercise_hours |-> "Exercise hours must be between 0 and 24 per week"]

FormDefaults ==
    [age |-> 50, gender |-> "Male", cholesterol |-> 200, blood_pressure |-> 120,
     heart_rate |-> 72, smoking |-> "Never", alcohol_intake |-> "None",
     exercise_hours |-> 3, family_history |-> FALSE, diabetes |-> FALSE,
     obesity |-> FALSE, stress_level |-> 5, blood_sugar |-> 100,
     exercise_induced_angina |-> FALSE, chest_pain_type |-> "Asymptomatic"]

InDomain(f, v) ==
    IF f \in Continuous THEN MinOf[f] <= v /\ v <= MaxOf[f]
    ELSE IF f \in CategoricalFields THEN v \in Enumeration[f]
    ELSE v \in BOOLEAN

-----------------------------------------------------------------------------
(* JavaScript's parseInt on the text of an <input>, and the || operator.   *)

NaN == <<>>

Digit ==
    [c \in {"0", "1", "2", "3", "4", "5", "6", "7", "8", "9"} |->
        CASE c = "0" -> 0 [] c = "1" -> 1 [] c = "2" -> 2 [] c = "3" -> 3
          [] c = "4" -> 4 [] c = "5" -> 5 [] c = "6" -> 6 [] c = "7" -> 7
          [] c = "8" -> 8 [] c = "9" -> 9]

RECURSIVE ParseDigits(_, _, _)
ParseDigits(s, i, acc) ==
    IF i > Len(s) \/ s[i] \notin DOMAIN Digit THEN acc
    ELSE ParseDigits(s, i + 1, acc * 10 + Digit[s[i]])

\* parseInt(text): an optional sign, then the longest run of digits; NaN when
\* there is no digit.  The result is NaN or Some(n).
ParseInt(s) ==
    LET signed == Len(s) > 0 /\ s[1] \in {"-", "+"}
        start == IF signed THEN 2 ELSE 1
        n == ParseDigits(s, start, 0)
    IN  IF start > Len(s) \/ s[start] \notin DOMAIN Digit THEN NaN
        ELSE IF signed /\ s[1] = "-" THEN Some(0 - n) ELSE Some(n)

\* parseInt(text) || d : NaN and 0 are falsy.
ParsedOr(s, d) ==
    LET p == ParseInt(s) IN IF p = NaN \/ p = Some(0) THEN d ELSE Get(p)

\* initialData?.f || d : a missing field, 0, "" and false are falsy.
Falsy(f, v) ==
    IF f \in Continuous THEN v = 0
    ELSE IF f \in CategoricalFields THEN v = ""
    ELSE v = FALSE

InitialOr(initialData, f, d) ==
    IF initialData = Null THEN d
    ELSE IF f \notin DOMAIN Get(initialData) THEN d
    ELSE IF Falsy(f, Get(initialData)[f]) THEN d
    ELSE Get(initialData)[f]

-----------------------------------------------------------------------------
(* ManualForm: the useState initialiser, handleInputChange and the range   *)
(* checks of handleSubmit.                                                 *)

FormInit(initialData) ==
    [f \in Fields |-> InitialOr(initialData, f, FormDefaults[f])]

\* The value an <Input> onChange hands to handleInputChange: every numeric
\* input falls back to 0 on a falsy parse, stress_level falls back to 1.
OnChangeValue(f, text) ==
    IF f = "stress_level" THEN ParsedOr(text, 1) ELSE ParsedOr(text, 0)

HandleInputChange(prev, f, value) == [prev EXCEPT ![f] = value]

OutOfRange(fd, f) == fd[f] < MinOf[f] \/ fd[f] > MaxOf[f]

FirstMessage(bad) ==
    IF bad = {} THEN Null
    ELSE Some(RangeMessage[ContinuousFields[CHOOSE i \in bad : \A j \in bad : i <= j]])

\* Validate with every limit one unit too wide.
ValidateLoose(fd) ==
    FirstMessage({i \in DOMAIN ContinuousFields :
                    LET f == ContinuousFields[i]
                    IN  fd[f] < MinOf[f] - 1 \/ fd[f] > MaxOf[f] + 1})

\* Validate with <= and >= for < and >.
ValidateStrict(fd) ==
    FirstMessage({i \in DOMAIN ContinuousFields :
                    LET f == ContinuousFields[i]
                    IN  fd[f] <= MinOf[f] \/ fd[f] >= MaxOf[f]})

\* Validate with the message of the last failing check.
ValidateLastFailing(fd) ==
    LET bad == {i \in DOMAIN ContinuousFields : OutOfRange(fd, ContinuousFields[i])}
        last == CHOOSE i \in bad : \A j \in bad : i >= j
    IN  IF bad = {} THEN Null ELSE Some(RangeMessage[ContinuousFields[last]])

\* The message thrown by the first failing check, in the order of the code;
\* Null when every check passes.
Validate(fd) ==
    LET bad == {i \in DOMAIN ContinuousFields : OutOfRange(fd, ContinuousFields[i])}
        first == CHOOSE i \in bad : \A j \in bad : i <= j
    IN  IF bad = {} THEN Null ELSE Some(RangeMessage[ContinuousFields[first]])

\* What handleSubmit passes to onSubmit.
SubmittedData(fd) == fd

-----------------------------------------------------------------------------
(* UploadCard: the dropzone's options and what it accepts.                 *)

MaxFileSize == 10485760
MaxFiles == 1

AcceptedTypes == {"application/pdf", "image/jpeg", "image/png"}

\* AcceptedFiles without the maxSize option.
AcceptedFilesAnySize(files) ==
    LET fit == SelectSeq(files, LAMBDA x : x.type \in AcceptedTypes)
    IN  IF Len(fit) > MaxFiles THEN <<>> ELSE fit

\* The files useDropzone hands to onDrop: those of an accepted type within
\* maxSize, and none of them when they are more than maxFiles.
AcceptedFiles(files) ==
    LET fit == SelectSeq(files, LAMBDA x : x.type \in AcceptedTypes /\ x.size <= MaxFileSize)
    IN  IF Len(fit) > MaxFiles THEN <<>> ELSE fit

-----------------------------------------------------------------------------
(* ResultCard: what is shown for a risk level.                             *)

\* String.prototype.toLowerCase, on the strings a risk level can be.
ToLowerCase(str) ==
    CASE str \in {"Low", "LOW", "low"} -> "low"
      [] str \in {"Moderate", "MODERATE", "moderate"} -> "moderate"
      [] str \in {"High", "HIGH", "high"} -> "high"
      [] str \in {"Medium", "medium"} -> "medium"
      [] OTHER -> str

getRiskDescription(level) ==
    CASE ToLowerCase(level) = "low" ->
            "Your risk of heart disease is relatively low. Continue maintaining a healthy lifestyle."
      [] ToLowerCase(level) = "moderate" ->
            "Your risk of heart disease is moderate. Consider lifestyle changes and regular health checkups."
      [] ToLowerCase(level) = "high" ->
            "Your risk of heart disease is high. Please consult a healthcare professional immediately."
      [] OTHER -> "Risk assessment completed."

\* getRiskColor with the second case spelled 'medium'.
getRiskColorMedium(riskLevel) ==
    CASE ToLowerCase(riskLevel) = "low" -> "text-green-600 bg-green-50"
      [] ToLowerCase(riskLevel) = "medium" -> "text-yellow-600 bg-yellow-50"
      [] ToLowerCase(riskLevel) = "high" -> "text-red-600 bg-red-50"
      [] OTHER -> "text-gray-600 bg-gray-50"

getRiskColor(riskLevel) ==
    CASE ToLowerCase(riskLevel) = "low" -> "text-green-600 bg-green-50"
      [] ToLowerCase(riskLevel) = "moderate" -> "text-yellow-600 bg-yellow-50"
      [] ToLowerCase(riskLevel) = "high" -> "text-red-600 bg-red-50"
      [] OTHER -> "text-gray-600 bg-gray-50"

\* The icons are named by what they show.
getRiskIcon(riskLevel) ==
    CASE ToLowerCase(riskLevel) = "low" -> "check mark"
      [] ToLowerCase(riskLevel) = "moderate" -> "warning sign"
      [] ToLowerCase(riskLevel) = "high" -> "rotating light"
      [] OTHER -> "question mark"

-----------------------------------------------------------------------------
(* The prediction service behind POST /predict.  Its code is not among the *)
(* sources; the operators of this section follow the design document       *)
(* (sections 3, 4.2 to 4.5 and 6).  The numbers of the model artifact      *)
(* (Mean, Scale, Weight, Base) stand for the trained values, which the     *)
(* document leaves to the artifact.                                        *)

FeatureOrder ==
    <<"age", "gender", "cholesterol", "blood_pressure", "heart_rate", "smoking",
      "alcohol_intake", "exercise_hours", "family_history", "diabetes", "obesity",
      "stress_level", "blood_sugar", "exercise_induced_angina", "chest_pain_type">>

FeatureCount == Len(FeatureOrder)

OrderOf(f) == CHOOSE i \in DOMAIN FeatureOrder : FeatureOrder[i] = f

\* Number of contributors returned.
TopK == 5

\* Probabilities are kept in thousandths: 0 .. 1000 stands for [0, 1].
ProbabilityScale == 1000
ModerateFrom == 330
HighFrom == 670

Abs(x) == IF x < 0 THEN 0 - x ELSE x

RECURSIVE SumOver(_, _)
SumOver(S, F) ==
    IF S = {} THEN 0
    ELSE LET x == CHOOSE y \in S : TRUE IN F[x] + SumOver(S \ {x}, F)

\* ValidSchema without the check of the enumerations.
ValidSchemaNumbersOnly(data) ==
    /\ DOMAIN data = Fields
    /\ \A f \in Fields \ CategoricalFields : InDomain(f, data[f])

\* Section 3: every field present and within its domain.
ValidSchema(data) ==
    /\ DOMAIN data = Fields
    /\ \A f \in Fields : InDomain(f, data[f])

Mean ==
    [age |-> 50, cholesterol |-> 200, blood_pressure |-> 120, heart_rate |-> 72,
     stress_level |-> 5, blood_sugar |-> 100, exercise_hours |-> 3]

Scale ==
    [age |-> 15, cholesterol |-> 50, blood_pressure |-> 20, heart_rate |-> 15,
     stress_level |-> 3, blood_sugar |-> 30, exercise_hours |-> 3]

LabelIndex ==
    [gender |-> [Female |-> 0, Male |-> 1],
     smoking |-> [Current |-> 0, Former |-> 1, Never |-> 2],
     alcohol_intake |-> [Heavy |-> 0, Moderate |-> 1, None |-> 2],
     chest_pain_type |-> ("Asymptomatic" :> 0) @@ ("Atypical Angina" :> 1) @@
                         ("Non-anginal Pain" :> 2) @@ ("Typical Angina" :> 3)]

KnownCategories(data) ==
    \A f \in CategoricalFields : data[f] \in DOMAIN LabelIndex[f]

\* Section 4.2: continuous fields standardised with the fixed mean and scale,
\* categorical fields through the fixed label table, booleans to {0, 1}.
Transform(data) ==
    [f \in Fields |->
        IF f \in Continuous THEN (data[f] - Mean[f]) \div Scale[f]
        ELSE IF f \in CategoricalFields THEN LabelIndex[f][data[f]]
        ELSE IF data[f] THEN 1 ELSE 0]

Weight ==
    [Primary |->
        [age |-> 40, gender |-> 30, cholesterol |-> 25, blood_pressure |-> 35,
         heart_rate |-> 10, smoking |-> -45, alcohol_intake |-> -15,
         exercise_hours |-> -20, family_history |-> 60, diabetes |-> 55,
         obesity |-> 35, stress_level |-> 20, blood_sugar |-> 15,
         exercise_induced_angina |-> 70, chest_pain_type |-> 50],
     Fallback |->
        [age |-> 30, gender |-> 20, cholesterol |-> 30, blood_pressure |-> 30,
         heart_rate |-> 0, smoking |-> -40, alcohol_intake |-> -10,
         exercise_hours |-> -25, family_history |-> 50, diabetes |-> 50,
         obesity |-> 30, stress_level |-> 15, blood_sugar |-> 20,
         exercise_induced_angina |-> 60, chest_pain_type |-> 45]]

Base == [Primary |-> 300, Fallback |-> 320]

\* Section 4.3: the variant that serves; the primary model when it loaded,
\* otherwise the fallback.
\* What the loader can leave the process with: the primary model, only the
\* fallback, or neither.
Loaded ==
    {[primary |-> TRUE, fallback |-> TRUE], [primary |-> FALSE, fallback |-> TRUE],
     [primary |-> FALSE, fallback |-> FALSE]}

\* Variant without the fallback.
VariantPrimaryOnly(svc) == IF svc.primary THEN "Primary" ELSE "Unavailable"

Variant(svc) ==
    IF svc.primary THEN "Primary"
    ELSE IF svc.fallback THEN "Fallback"
    ELSE "Unavailable"

\* ServiceAfter with the primary model dropped once it has served.
ServiceAfterDrops(svc, data) == [svc EXCEPT !.primary = FALSE]

\* Section 4.3: the model is loaded once and read only; serving a request
\* leaves it as it was.
ServiceAfter(svc, data) == svc

ModelVersion == [Primary |-> "1.0.0-primary", Fallback |-> "1.0.0-fallback"]

\* Section 4.4: the signed contribution of each feature to this prediction.
RawAttribution(variant, vec) == [f \in Fields |-> Weight[variant][f] * vec[f]]

Clamp(x, lo, hi) == IF x < lo THEN lo ELSE IF x > hi THEN hi ELSE x

\* Section 4.3: the probability of the positive class.
Probability(variant, vec) ==
    Clamp(Base[variant] + SumOver(Fields, RawAttribution(variant, vec)),
          0, ProbabilityScale)

\* FeatureContribution.value is number | string | boolean: a value with the
\* type it has.
KindOf(f) ==
    IF f \in Continuous THEN "number"
    ELSE IF f \in CategoricalFields THEN "string"
    ELSE "boolean"

ValueOf(data, f) == <<KindOf(f), data[f]>>

\* Normalize without the absolute values.
NormalizeSigned(raw) ==
    LET nonzero == {f \in Fields : raw[f] # 0}
        total == SumOver(nonzero, [f \in nonzero |-> raw[f]])
    IN  IF nonzero = {}
        THEN [f \in Fields |-> [num |-> 100, den |-> FeatureCount]]
        ELSE [f \in nonzero |-> [num |-> 100 * raw[f], den |-> total]]

\* Section 4.4, normalisation: absolute values, exactly-zero contributions
\* dropped, the survivors scaled to sum to 100; equal shares over all features
\* when every attribution is zero.  An importance is the exact fraction num/den.
Normalize(raw) ==
    LET nonzero == {f \in Fields : raw[f] # 0}
        total == SumOver(nonzero, [f \in nonzero |-> Abs(raw[f])])
    IN  IF nonzero = {}
        THEN [f \in Fields |-> [num |-> 100, den |-> FeatureCount]]
        ELSE [f \in nonzero |-> [num |-> 100 * Abs(raw[f]), den |-> total]]

\* Features by descending importance (the shares have one denominator); equal
\* shares keep the feature order.
RECURSIVE Ranked(_, _)
Ranked(imp, S) ==
    IF S = {} THEN <<>>
    ELSE LET top == CHOOSE f \in S : \A g \in S :
                        \/ imp[f].num > imp[g].num
                        \/ imp[f].num = imp[g].num /\ OrderOf(f) <= OrderOf(g)
         IN  <<top>> \o Ranked(imp, S \ {top})

\* Explain with the shares scaled again over the k that are kept.
ExplainRenormalized(data, raw, k) ==
    LET imp == Normalize(raw)
        order == Ranked(imp, DOMAIN imp)
        n == IF k < Len(order) THEN k ELSE Len(order)
        kept == {order[i] : i \in 1..n}
        total == SumOver(kept, [f \in kept |-> imp[f].num])
    IN  [i \in 1..n |-> [feature |-> order[i], value |-> ValueOf(data, order[i]),
                         importance |-> [num |-> 100 * imp[order[i]].num,
                                         den |-> total]]]

\* Section 4.4: truncation to the top k after normalising over the full set;
\* each contributor carries the input's own value.
Explain(data, raw, k) ==
    LET imp == Normalize(raw)
        order == Ranked(imp, DOMAIN imp)
        n == IF k < Len(order) THEN k ELSE Len(order)
    IN  [i \in 1..n |-> [feature |-> order[i], value |-> ValueOf(data, order[i]),
                         importance |-> imp[order[i]]]]

\* Categorize with the limits on the wrong side.
CategorizeInclusive(p) ==
    IF p <= ModerateFrom THEN "Low"
    ELSE IF p <= HighFrom THEN "Moderate"
    ELSE "High"

\* Section 4.5: Low = [0, 0.33), Moderate = [0.33, 0.67), High = [0.67, 1].
Categorize(p) ==
    IF p < ModerateFrom THEN "Low"
    ELSE IF p < HighFrom THEN "Moderate"
    ELSE "High"

Guidance ==
    [Low |-> <<"Maintain a healthy lifestyle">>,
     Moderate |-> <<"Consider lifestyle changes and regular checkups">>,
     High |-> <<"Consult a healthcare professional">>]

\* Section 6: predict(FeatureSchema) -> PredictionResult, or one of its
\* failures; no partial result.
Predict(svc, data, k) ==
    IF ~ValidSchema(data) THEN [ok |-> FALSE, kind |-> "ValidationError"]
    ELSE IF ~KnownCategories(data) THEN [ok |-> FALSE, kind |-> "UnknownCategory"]
    ELSE IF Variant(svc) = "Unavailable" THEN [ok |-> FALSE, kind |-> "ModelUnavailable"]
    ELSE LET variant == Variant(svc)
             vec == Transform(data)
             p == Probability(variant, vec)
         IN  [ok |-> TRUE,
              result |-> [risk_score |-> p,
                          risk_level |-> Categorize(p),
                          top_contributors |-> Explain(data, RawAttribution(variant, vec), k),
                          model_version |-> ModelVersion[variant],
                          notes |-> Guidance[Categorize(p)]]]

-----------------------------------------------------------------------------
(* The Document Extractor behind POST /upload.  Its code is not among the  *)
(* sources either; the operators follow section 4.1 of the design          *)
(* document.  A document is its file signature, whether its content is     *)
(* damaged, and what the pattern table finds in its text layer and in the  *)
(* text that character recognition recovers from its image: for each field *)
(* matched, the typed value and the local confidence in hundredths.        *)

\* The content type each file signature (magic bytes) stands for.
ContentType ==
    [pdf |-> "application/pdf", jpeg |-> "image/jpeg", png |-> "image/png"]

RequiredCount == FeatureCount

ExactMatch == 100

\* The matches the extractor parses: a PDF's text layer, or the recognised
\* text when that layer yields nothing; the recognised text for an image.
Recovered(doc) ==
    IF doc.signature = "pdf" /\ DOMAIN doc.text # {} THEN doc.text ELSE doc.scan

\* ValidMatches with the matches kept whatever their value.
AllMatches(found) == DOMAIN found

\* The fields whose parsed value passes the domain validation of section 3.
ValidMatches(found) == {f \in DOMAIN found : InDomain(f, found[f].value)}

\* MatchesType with the declared type taken at its word.
MatchesDeclared(doc, declared) == declared \in {ContentType[g] : g \in DOMAIN ContentType}

\* The signature names the content type that was declared.
MatchesType(doc, declared) ==
    /\ doc.signature \in DOMAIN ContentType
    /\ ContentType[doc.signature] = declared

\* (fields matched / fields required) weighted by the mean local confidence,
\* as the exact fraction num/den: (n / R) * (sum / (100 n)) = sum / (100 R).
Confidence(found, kept) ==
    [num |-> SumOver(kept, [f \in kept |-> found[f].local]),
     den |-> ExactMatch * RequiredCount]

\* extract(fileBytes, declaredMimeType) -> ExtractionResult, or one of its
\* failures.
Extract(doc, declared) ==
    IF ~MatchesType(doc, declared) THEN [ok |-> FALSE, kind |-> "UnsupportedFormat"]
    ELSE IF doc.corrupted THEN [ok |-> FALSE, kind |-> "ExtractionError"]
    ELSE LET found == Recovered(doc)
             kept == ValidMatches(found)
         IN  [ok |-> TRUE,
              result |-> [fields |-> [f \in kept |-> found[f].value],
                          confidence |-> Confidence(found, kept)]]

-----------------------------------------------------------------------------
(* The inputs of the model: what a user types and drops, and what the      *)
(* upload endpoint answers.                                                *)

DigitChar == <<"0", "1", "2", "3", "4", "5", "6", "7", "8", "9">>

RECURSIVE Numeral(_)
Numeral(n) ==
    IF n < 0 THEN <<"-">> \o Numeral(0 - n)
    ELSE IF n < 10 THEN <<DigitChar[n + 1]>>
    ELSE Numeral(n \div 10) \o <<DigitChar[(n % 10) + 1]>>

\* Texts typed into a numeric input: nothing, and both sides of both limits
\* of the field.
TypedTexts(f) ==
    {<<>>} \cup {Numeral(n) : n \in {MinOf[f] - 1, MinOf[f], MaxOf[f], MaxOf[f] + 1}}

LowSchema ==
    [FormDefaults EXCEPT !.age = 18, !.cholesterol = 100, !.blood_pressure = 60,
                         !.heart_rate = 40, !.stress_level = 1, !.blood_sugar = 70,
                         !.exercise_hours = 0, !.gender = "Female",
                         !.smoking = "Former", !.family_history = TRUE]

HighSchema ==
    [FormDefaults EXCEPT !.age = 120, !.cholesterol = 600, !.blood_pressure = 250,
                         !.heart_rate = 200, !.stress_level = 10, !.blood_sugar = 300,
                         !.exercise_hours = 24, !.smoking = "Current",
                         !.alcohol_intake = "Heavy", !.chest_pain_type = "Typical Angina",
                         !.diabetes = TRUE, !.obesity = TRUE,
                         !.exercise_induced_angina = TRUE]

BlankSchema ==
    [FormDefaults EXCEPT !.age = 0, !.cholesterol = 0, !.blood_pressure = 0,
                         !.heart_rate = 0, !.stress_level = 0, !.blood_sugar = 0,
                         !.exercise_hours = 0]

TwoInvalidSchema == [FormDefaults EXCEPT !.cholesterol = 99, !.heart_rate = 201]

PartialSchema == [age |-> 54, cholesterol |-> 210]

NoFieldsSchema == [f \in {} |-> 0]

\* The extracted_data of an upload answer: what the declared type
\* (HeartDiseaseInput, taken as Partial by the form) admits.
ExtractedChoices ==
    {LowSchema, HighSchema, BlankSchema, TwoInvalidSchema, PartialSchema,
     NoFieldsSchema}

\* Bodies of a 2xx answer of POST /upload (UploadResponse).
UploadResults ==
    {[success |-> TRUE, message |-> "Medical data extracted successfully",
      extracted_data |-> Some(d)] : d \in ExtractedChoices}
    \cup {[success |-> TRUE, message |-> "No medical data found", extracted_data |-> Null],
          [success |-> FALSE, message |-> "Could not extract data", extracted_data |-> Null],
          [success |-> FALSE, message |-> "Low confidence extraction",
           extracted_data |-> Some(PartialSchema)]}

\* How an upload request settles: a body, or a rejection with an Error.
UploadOutcomes ==
    {[resolved |-> TRUE, result |-> Some(r), message |-> ""] : r \in UploadResults}
    \cup {[resolved |-> FALSE, result |-> Null, message |-> m] :
            m \in {"Network Error"}}

File(type, size) == [type |-> type, size |-> size]

\* What is dropped on the card: one file of each accepted type, a file of
\* another type, a file one byte too large, two files at once, and a file
\* of another type together with one that is accepted.
Drops ==
    {<<File(t, MaxFileSize)>> : t \in AcceptedTypes \cup {"text/plain"}}
    \cup {<<File("application/pdf", MaxFileSize + 1)>>,
          <<File("application/pdf", MaxFileSize), File("image/png", MaxFileSize)>>,
          <<File("text/plain", MaxFileSize), File("image/jpeg", MaxFileSize)>>}

\* The message of the Error a failed predict request rejects with.
FailureMessage ==
    [ValidationError |-> "Request failed with status code 422",
     UnknownCategory |-> "Request failed with status code 400",
     ModelUnavailable |-> "Request failed with status code 503",
     Timeout |-> "timeout of 30000ms exceeded"]

-----------------------------------------------------------------------------
(* Mounting.  The App renders UploadCard only in 'upload' and ManualForm    *)
(* only in 'manual'; a component that is rendered again starts from its    *)
(* useState initialisers, and a request started by an unmounted UploadCard *)
(* can no longer set that card's state.                                    *)

NoneSupplied == [f \in Fields |-> Null]

SuppliedBy(initialData) ==
    [f \in Fields |->
        IF initialData # Null /\ f \in DOMAIN Get(initialData)
        THEN Some(Get(initialData)[f]) ELSE Null]

NoMatches == [f \in {} |-> [value |-> 0, local |-> 0]]

BlankDocument(signature) ==
    [signature |-> signature, corrupted |-> FALSE, text |-> NoMatches, scan |-> NoMatches]

NoProbe ==
    [kind |-> "none", data |-> FormDefaults, k |-> 0, p |-> 0,
     doc |-> BlankDocument("pdf"), declared |-> "application/pdf", out |-> Null]

\* `sent` is the file onDrop uploads, `answer` what an upload settled with;
\* `calls` lists what the handler called to report its outcome: the props
\* onSubmit, onError, onDataExtracted, or setError with a message.
NoOp(name) ==
    [op |-> name, form |-> Null, issued |-> FALSE, files |-> <<>>, calls |-> <<>>,
     answer |-> Null, sent |-> <<>>]

Calling(name, call) == [NoOp(name) EXCEPT !.calls = <<call>>]

\* The ManualForm after the App's state becomes `to` with initialData `data`.
FormAfter(to, data) ==
    IF to # "manual" THEN Null
    ELSE IF currentState = "manual" THEN formData
    ELSE Some(FormInit(data))

SuppliedAfter(to, data) ==
    IF to # "manual" THEN NoneSupplied
    ELSE IF currentState = "manual" THEN supplied
    ELSE SuppliedBy(data)

\* The upload requests after the App's state becomes `to`.
ReqsAfter(to, reqs) ==
    IF currentState = "upload" /\ to # "upload"
    THEN [live |-> 0, stale |-> reqs.stale + reqs.live]
    ELSE reqs

StaysUpload(to) == currentState = "upload" /\ to = "upload"

-----------------------------------------------------------------------------
(* The operations. *)

Init ==
    /\ currentState = "upload"
    /\ prediction = Null
    /\ error = Null
    /\ extractedData = Null
    /\ formData = Null
    /\ isSubmitting = FALSE
    /\ isUploading = FALSE
    /\ uploadResult = Null
    /\ uploadReqs = [live |-> 0, stale |-> 0]
    /\ predictReqs = {}
    /\ service \in Loaded
    /\ served = {}
    /\ shownFor = Null
    /\ lastOp = NoOp("init")
    /\ supplied = NoneSupplied
    /\ inputs = [drops |-> 0, edits |-> 0, submits |-> 0]
    /\ probe = NoProbe

\* UploadCard.onDrop, called by the dropzone with the files it accepted.
OnDrop(files) ==
    /\ currentState = "upload"
    /\ uploadResult = Null
    /\ Count(inputs) < MaxInputs
    /\ LET accepted == AcceptedFiles(files)
           starts == Len(accepted) > 0
       IN  /\ isUploading' = IF starts THEN TRUE ELSE isUploading
           /\ uploadReqs' = IF starts THEN [uploadReqs EXCEPT !.live = @ + 1]
                            ELSE uploadReqs
           /\ lastOp' = [NoOp("onDrop") EXCEPT !.issued = uploadReqs' # uploadReqs,
                                               !.files = files,
                                               !.sent = IF starts THEN <<accepted[1]>> ELSE <<>>]
    /\ inputs' = [inputs EXCEPT !.drops = @ + 1]
    /\ UNCHANGED <<probe, currentState, prediction, error, extractedData, formData,
                   isSubmitting, uploadResult, predictReqs, service, served,
                   shownFor, supplied>>

\* Extracted without the test of result.success.
ExtractedIgnoringSuccess(outcome) ==
    outcome.resolved /\ Get(outcome.result).extracted_data # Null

\* onDrop: result.success && result.extracted_data, for a request that
\* resolved.
Extracted(outcome) ==
    /\ outcome.resolved
    /\ Get(outcome.result).success
    /\ Get(outcome.result).extracted_data # Null

\* UploadErrorMessage with the text of the catch block for every failure.
UploadErrorMessageFixed(outcome) == "Upload failed"

\* onDrop: what is passed to onError.  result.message of an answer without
\* data; the message of the Error a rejected request carries (axios rejects
\* with an Error, so 'Upload failed' is never the message).
UploadErrorMessage(outcome) ==
    IF outcome.resolved THEN Get(outcome.result).message ELSE outcome.message

\* The rest of onDrop, after apiClient.uploadFile settles.  `live` tells
\* whether the card that started the request is still the mounted one.
UploadSettles(live, outcome) ==
    /\ IF live THEN uploadReqs.live > 0 ELSE uploadReqs.stale > 0
    /\ LET extracted == Extracted(outcome)
           to == IF extracted THEN "manual" ELSE currentState
           data == IF extracted THEN Get(outcome.result).extracted_data
                   ELSE extractedData
           reqs == IF live THEN [uploadReqs EXCEPT !.live = @ - 1]
                   ELSE [uploadReqs EXCEPT !.stale = @ - 1]
       IN  /\ currentState' = to
           /\ extractedData' = data
           /\ error' = IF extracted THEN Null ELSE Some(UploadErrorMessage(outcome))
           /\ uploadResult' = IF ~StaysUpload(to) THEN Null
                              ELSE IF live /\ outcome.resolved THEN outcome.result
                              ELSE uploadResult
           /\ isUploading' = IF ~StaysUpload(to) THEN FALSE
                             ELSE IF live THEN FALSE
                             ELSE isUploading
           /\ uploadReqs' = ReqsAfter(to, reqs)
           /\ formData' = FormAfter(to, data)
           /\ supplied' = SuppliedAfter(to, data)
           /\ lastOp' = [(IF extracted
                           THEN Calling("handleDataExtracted", "onDataExtracted")
                           ELSE Calling("uploadFailed", "onError"))
                            EXCEPT !.answer = Some(outcome)]
    /\ isSubmitting' = FALSE
    /\ UNCHANGED <<probe, prediction, predictReqs, service, served, shownFor, inputs>>

\* 'Upload Another File'.
UploadAnother ==
    /\ currentState = "upload"
    /\ uploadResult # Null
    /\ uploadResult' = Null
    /\ lastOp' = NoOp("uploadAnother")
    /\ UNCHANGED <<probe, currentState, prediction, error, extractedData, formData,
                   isSubmitting, isUploading, uploadReqs, predictReqs, service,
                   served, shownFor, supplied, inputs>>

\* 'Enter Health Data'.
EnterHealthData ==
    /\ currentState = "upload"
    /\ currentState' = "manual"
    /\ formData' = FormAfter("manual", extractedData)
    /\ supplied' = SuppliedAfter("manual", extractedData)
    /\ isSubmitting' = FALSE
    /\ isUploading' = FALSE
    /\ uploadResult' = Null
    /\ uploadReqs' = ReqsAfter("manual", uploadReqs)
    /\ lastOp' = NoOp("enterHealthData")
    /\ UNCHANGED <<probe, prediction, error, extractedData, predictReqs, service, served,
                   shownFor, inputs>>

\* UploadInstead with the error cleared as well.
UploadInsteadClearing ==
    /\ currentState = "manual"
    /\ currentState' = "upload"
    /\ error' = Null
    /\ formData' = Null
    /\ supplied' = NoneSupplied
    /\ isSubmitting' = FALSE
    /\ isUploading' = FALSE
    /\ uploadResult' = Null
    /\ lastOp' = NoOp("uploadInstead")
    /\ UNCHANGED <<probe, prediction, extractedData, uploadReqs, predictReqs,
                   service, served, shownFor, inputs>>

\* 'Upload Health Report Instead'.
UploadInstead ==
    /\ currentState = "manual"
    /\ currentState' = "upload"
    /\ formData' = Null
    /\ supplied' = NoneSupplied
    /\ isSubmitting' = FALSE
    /\ isUploading' = FALSE
    /\ uploadResult' = Null
    /\ lastOp' = NoOp("uploadInstead")
    /\ UNCHANGED <<probe, prediction, error, extractedData, uploadReqs, predictReqs,
                   service, served, shownFor, inputs>>

\* handleInputChange(f, value), shared by the three kinds of control.
Edit(f, value, given) ==
    /\ currentState = "manual"
    /\ Count(inputs) < MaxInputs
    /\ inputs.edits < MaxEdits
    /\ formData' = Some(HandleInputChange(Get(formData), f, value))
    /\ supplied' = [supplied EXCEPT ![f] = given]
    /\ inputs' = [inputs EXCEPT !.edits = @ + 1]
    /\ lastOp' = NoOp("handleInputChange")
    /\ UNCHANGED <<probe, currentState, prediction, error, extractedData, isSubmitting,
                   isUploading, uploadResult, uploadReqs, predictReqs, service,
                   served, shownFor>>

\* Typing into a numeric <Input>.
TypeNumber(f, text) == Edit(f, OnChangeValue(f, text), ParseInt(text))

\* Choosing an item of a <Select>.
SelectItem(f, item) == Edit(f, item, Some(item))

\* Clicking a <Checkbox>.
CheckBox(f, checked) == Edit(f, checked, Some(checked))

\* StateOnSubmit without setCurrentState('loading').
StateOnSubmitStays(passes) == "manual"

\* The view after handleSubmit: handleFormSubmit begins with
\* setCurrentState('loading'); handleError leaves the view as it is.
StateOnSubmit(passes) == IF passes THEN "loading" ELSE "manual"

\* ManualForm.handleSubmit, with App.handleFormSubmit up to its await when
\* the checks pass and App.handleError when one fails.
HandleSubmit ==
    /\ currentState = "manual"
    /\ ~isSubmitting
    /\ Count(inputs) < MaxInputs
    /\ LET fd == Get(formData)
           thrown == Validate(fd)
           passes == thrown = Null
           to == StateOnSubmit(passes)
       IN  /\ currentState' = to
           /\ error' = IF passes THEN Null ELSE thrown
           /\ predictReqs' = IF passes
                             THEN predictReqs \cup
                                  {[id |-> inputs.submits + 1, data |-> SubmittedData(fd),
                                    form |-> fd]}
                             ELSE predictReqs
           /\ formData' = FormAfter(to, extractedData)
           /\ supplied' = SuppliedAfter(to, extractedData)
           /\ lastOp' = [Calling("handleSubmit", IF passes THEN "onSubmit" ELSE "onError")
                            EXCEPT !.form = formData,
                                   !.issued = predictReqs' # predictReqs]
    /\ isSubmitting' = FALSE
    /\ inputs' = [inputs EXCEPT !.submits = @ + 1]
    /\ UNCHANGED <<probe, prediction, extractedData, isUploading, uploadResult, uploadReqs,
                   service, served, shownFor>>

\* StateAfterPredict without setCurrentState('manual') in the catch block.
StateAfterPredictNoCatch(ok) == IF ok THEN "result" ELSE "loading"

\* StateAfterPredict with setCurrentState('result') moved out of the try block.
StateAfterPredictAlways(ok) == "result"

\* App.handleFormSubmit: setCurrentState('result') after a response,
\* setCurrentState('manual') in the catch block.
StateAfterPredict(ok) == IF ok THEN "result" ELSE "manual"

\* What a predict request settles with: the service's answer, or the
\* client's 30 s timeout.
PredictOutcome(req, timedOut) ==
    IF timedOut THEN [ok |-> FALSE, kind |-> "Timeout"]
    ELSE Predict(service, req.data, TopK)

\* PendingAfter with a failed request sent again.
PendingAfterRetry(reqs, req, ok) == IF ok THEN reqs \ {req} ELSE reqs

\* The requests in flight once `req` has settled: the response interceptor
\* passes a failure on (Promise.reject) and nothing sends the request again.
PendingAfter(reqs, req, ok) == reqs \ {req}

\* The rest of App.handleFormSubmit, after apiClient.predict settles.
PredictSettles(req, timedOut) ==
    /\ req \in predictReqs
    /\ predictReqs' = PendingAfter(predictReqs, req, PredictOutcome(req, timedOut).ok)
    /\ LET out == PredictOutcome(req, timedOut)
           to == StateAfterPredict(out.ok)
       IN  /\ currentState' = to
           /\ prediction' = IF out.ok THEN Some(out.result) ELSE prediction
           /\ shownFor' = IF out.ok THEN Some(req) ELSE shownFor
           /\ error' = IF out.ok THEN error ELSE Some(FailureMessage[out.kind])
           /\ served' = IF out.ok
                        THEN served \cup {[id |-> req.id, data |-> req.data,
                                            result |-> out.result]}
                        ELSE served
           /\ service' = IF timedOut THEN service ELSE ServiceAfter(service, req.data)
           /\ formData' = FormAfter(to, extractedData)
           /\ supplied' = SuppliedAfter(to, extractedData)
           /\ uploadReqs' = ReqsAfter(to, uploadReqs)
           /\ lastOp' = IF out.ok THEN NoOp("predictSucceeded")
                         ELSE Calling("predictFailed", "setError")
    /\ isSubmitting' = FALSE
    /\ isUploading' = FALSE
    /\ uploadResult' = Null
    /\ UNCHANGED <<probe, extractedData, inputs>>

\* 'Start New Assessment' on the ResultCard, shown when prediction is set.
HandleReset ==
    /\ currentState = "result"
    /\ prediction # Null
    /\ currentState' = "upload"
    /\ prediction' = Null
    /\ shownFor' = Null
    /\ error' = Null
    /\ extractedData' = Null
    /\ lastOp' = NoOp("handleReset")
    /\ UNCHANGED <<probe, formData, isSubmitting, isUploading, uploadResult, uploadReqs,
                   predictReqs, service, served, supplied, inputs>>

Next ==
    \/ \E files \in Drops : OnDrop(files)
    \/ \E live \in BOOLEAN, outcome \in UploadOutcomes : UploadSettles(live, outcome)
    \/ UploadAnother
    \/ EnterHealthData
    \/ UploadInstead
    \/ \E f \in Continuous : \E text \in TypedTexts(f) : TypeNumber(f, text)
    \/ \E f \in CategoricalFields : \E item \in Enumeration[f] : SelectItem(f, item)
    \/ \E f \in BooleanFields : CheckBox(f, ~Get(formData)[f])
    \/ HandleSubmit
    \/ \E req \in predictReqs, timedOut \in BOOLEAN : PredictSettles(req, timedOut)
    \/ HandleReset

Spec == Init /\ [][Next]_vars

\* The App with fewer choices of input: one file that the dropzone accepts
\* and one that it does not, an upload answered with data, answered without,
\* or failed, and one edit of each kind of control.
FewDrops ==
    {<<File("application/pdf", MaxFileSize)>>, <<File("text/plain", MaxFileSize)>>}

FewOutcomes ==
    {o \in UploadOutcomes :
        \/ ~o.resolved
        \/ Get(o.result).extracted_data = Some(LowSchema)
        \/ ~Get(o.result).success /\ Get(o.result).extracted_data = Null}

PredictRequestSettles ==
    \E req \in predictReqs, timedOut \in BOOLEAN : PredictSettles(req, timedOut)

UploadRequestSettles(live) ==
    \E outcome \in FewOutcomes : UploadSettles(live, outcome)

NextFew ==
    \/ \E files \in FewDrops : OnDrop(files)
    \/ UploadRequestSettles(TRUE)
    \/ UploadRequestSettles(FALSE)
    \/ UploadAnother
    \/ EnterHealthData
    \/ UploadInstead
    \/ TypeNumber("age", Numeral(MaxOf["age"] + 1))
    \/ SelectItem("gender", "Female")
    \/ CheckBox("diabetes", ~Get(formData)["diabetes"])
    \/ HandleSubmit
    \/ PredictRequestSettles
    \/ HandleReset

\* The client's timeout (30000 ms) rejects a predict request that is still
\* in flight.
PredictTimesOut == \E req \in predictReqs : PredictSettles(req, TRUE)

\* Every request of the axios client settles: it is answered, it fails, or
\* at the latest the timeout rejects it.
FairSpec ==
    /\ Init
    /\ [][NextFew]_vars
    /\ WF_vars(PredictTimesOut)
    /\ WF_vars(UploadRequestSettles(TRUE))
    /\ WF_vars(UploadRequestSettles(FALSE))

-----------------------------------------------------------------------------
(* The service on its own: predict and categorize applied to inputs drawn   *)
(* from bounded sets, with the App left in its initial state.              *)

OtherGenderSchema == [FormDefaults EXCEPT !.gender = "Other"]

\* The schema whose transformed vector is all zero.
ZeroSchema ==
    [FormDefaults EXCEPT !.gender = "Female", !.smoking = "Current",
                         !.alcohol_intake = "Heavy"]

SampleValues(f) ==
    IF f \in Continuous THEN {MinOf[f], MaxOf[f]}
    ELSE IF f \in CategoricalFields THEN Enumeration[f]
    ELSE BOOLEAN

ProbeSchemas ==
    {LowSchema, HighSchema, OtherGenderSchema, TwoInvalidSchema, PartialSchema,
     [FormDefaults EXCEPT !.smoking = "Sometimes"],
     [FormDefaults EXCEPT !.age = 17]}
    \cup UNION {{[base EXCEPT ![f] = v] : base \in {FormDefaults, ZeroSchema},
                                             v \in SampleValues(f)} : f \in Fields}

Match(value, local) == [value |-> value, local |-> local]

\* What the pattern table finds: nothing; "Age: 54", "Cholesterol: 210 mg/dL"
\* exactly; a fuzzy match among exact ones; values outside their domains; a
\* match for every field.
ProbeMatches ==
    {NoMatches,
     [age |-> Match(54, ExactMatch), cholesterol |-> Match(210, ExactMatch)],
     [age |-> Match(54, ExactMatch), gender |-> Match("Female", 60),
      blood_pressure |-> Match(130, 80)],
     [age |-> Match(17, ExactMatch), cholesterol |-> Match(210, 90),
      stress_level |-> Match(11, 70)],
     [age |-> Match(121, 50)],
     [f \in Fields |-> Match(HighSchema[f], ExactMatch)]}

ProbeDocuments ==
    {[signature |-> g, corrupted |-> c, text |-> t, scan |-> n] :
        g \in DOMAIN ContentType \cup {"other"}, c \in BOOLEAN,
        t \in {NoMatches, [age |-> Match(54, ExactMatch),
                           cholesterol |-> Match(210, ExactMatch)]},
        n \in ProbeMatches}

ProbeInputs ==
    {[NoProbe EXCEPT !.kind = "predict", !.data = d, !.k = k] :
        d \in ProbeSchemas, k \in 1..FeatureCount}
    \cup {[NoProbe EXCEPT !.kind = "categorize", !.p = p] : p \in 0..ProbabilityScale}
    \cup {[NoProbe EXCEPT !.kind = "extract", !.doc = d, !.declared = t] :
            d \in ProbeDocuments, t \in AcceptedTypes \cup {"text/plain"}}

AppVars == <<currentState, prediction, error, extractedData, formData, isSubmitting,
             isUploading, uploadResult, uploadReqs, predictReqs, service, served,
             shownFor, lastOp, supplied, inputs>>

InitService ==
    /\ currentState = "upload"
    /\ prediction = Null
    /\ error = Null
    /\ extractedData = Null
    /\ formData = Null
    /\ isSubmitting = FALSE
    /\ isUploading = FALSE
    /\ uploadResult = Null
    /\ uploadReqs = [live |-> 0, stale |-> 0]
    /\ predictReqs = {}
    /\ service \in Loaded
    /\ served = {}
    /\ shownFor = Null
    /\ lastOp = NoOp("init")
    /\ supplied = NoneSupplied
    /\ inputs = [drops |-> 0, edits |-> 0, submits |-> 0]
    /\ probe \in ProbeInputs

\* POST /predict with probe.data, by a service returning probe.k contributors.
ServePredict ==
    /\ probe.kind = "predict"
    /\ probe.out = Null
    /\ probe' = [probe EXCEPT !.out = Some(Predict(service, probe.data, probe.k))]
    /\ UNCHANGED AppVars

\* categorize(probe.p).
ServeCategorize ==
    /\ probe.kind = "categorize"
    /\ probe.out = Null
    /\ probe' = [probe EXCEPT !.out = Some(Categorize(probe.p))]
    /\ UNCHANGED AppVars

\* POST /upload with probe.doc, declared as probe.declared.
ServeExtract ==
    /\ probe.kind = "extract"
    /\ probe.out = Null
    /\ probe' = [probe EXCEPT !.out = Some(Extract(probe.doc, probe.declared))]
    /\ UNCHANGED AppVars

NextService == ServePredict \/ ServeCategorize \/ ServeExtract

SpecService == InitService /\ [][NextService]_vars

-----------------------------------------------------------------------------
(* Properties of the form's validation.                                    *)

AfterSubmit == lastOp.op = "handleSubmit"

Submitted == Get(lastOp.form)

\* Field f is one unit outside its limits and every other field is in its
\* domain.
OneUnitOutside(fd, f) ==
    /\ fd[f] \in {MinOf[f] - 1, MaxOf[f] + 1}
    /\ \A g \in Fields \ {f} : InDomain(g, fd[g])

OnBoundary(fd) == \A f \in Continuous : fd[f] \in {MinOf[f], MaxOf[f]}

\* C1: a submitted form with exactly one continuous field one unit outside
\* its limits, all else in range, ends in the error message of that field; no
\* predict request is issued and the App is neither in 'loading' nor in
\* 'result'.
C1_OneUnitOutsideRejected ==
    \A f \in Continuous :
        (AfterSubmit /\ OneUnitOutside(Submitted, f)) =>
            /\ error = Some(RangeMessage[f])
            /\ ~lastOp.issued
            /\ \A r \in predictReqs : r.id # inputs.submits
            /\ currentState \notin {"loading", "result"}

C1_Witness ==
    /\ AfterSubmit
    /\ OneUnitOutside(Submitted, "exercise_hours")
    /\ Submitted.exercise_hours = -1
    /\ error = Some(RangeMessage["exercise_hours"])

\* C2: a submitted form whose continuous fields all sit on a limit passes the
\* checks, and the request handed to predict carries exactly the form's
\* values.
C2_BoundaryAccepted ==
    (AfterSubmit /\ OnBoundary(Submitted)) =>
        /\ lastOp.issued
        /\ error = Null
        /\ currentState = "loading"
        /\ \E r \in predictReqs :
              r.id = inputs.submits /\ \A f \in Fields : r.data[f] = Submitted[f]

C2_Witness ==
    /\ AfterSubmit
    /\ OnBoundary(Submitted)
    /\ \A f \in Continuous : Submitted[f] = MinOf[f]
    /\ lastOp.issued

\* C3: out-of-range values are rejected, not clamped: the mounted form holds
\* every out-of-domain value supplied for a continuous field as it was
\* supplied (so that the submit rejects it), and every request handed to
\* predict has its seven continuous fields within their limits.
C3_RejectedNotClamped ==
    /\ formData # Null =>
          \A f \in Continuous :
              (supplied[f] # Null /\ ~InDomain(f, Get(supplied[f]))) =>
                  Get(formData)[f] = Get(supplied[f])
    /\ \A r \in predictReqs : \A f \in Continuous : InDomain(f, r.data[f])

-----------------------------------------------------------------------------
(* Properties of the prediction shown.                                     *)

PredictionFields == {"risk_score", "risk_level", "top_contributors",
                     "model_version", "notes"}

Complete(p) ==
    /\ DOMAIN p = PredictionFields
    /\ p.risk_level \in {"Low", "Moderate", "High"}
    /\ Len(p.top_contributors) >= 1
    /\ Len(p.notes) >= 1

\* C5: in 'result' the stored prediction is the complete response of a
\* predict request that succeeded; a predict request that fails leaves the
\* stored prediction as it was, sets the error and puts the App in 'manual'.
C5_AllOrNothing ==
    /\ [](currentState = "result" =>
            /\ prediction # Null
            /\ Complete(Get(prediction))
            /\ \E s \in served : s.id = Get(shownFor).id /\ s.result = Get(prediction))
    /\ [][lastOp'.op = "predictFailed" =>
            /\ prediction' = prediction
            /\ currentState' = "manual"
            /\ error' # Null]_vars

C5_Witness ==
    /\ lastOp.op = "predictFailed"
    /\ currentState = "manual"
    /\ prediction # Null


-----------------------------------------------------------------------------
(* Properties of the service, under SpecService.                           *)

Answered == probe.kind = "predict" /\ probe.out # Null

Answer == Get(probe.out)

Tiers == {"Low", "Moderate", "High"}

Top == Answer.result.top_contributors

ShareSum(top) == SumOver(DOMAIN top, [i \in DOMAIN top |-> top[i].importance.num])

OneDenominator(top) ==
    \A i \in DOMAIN top :
        top[i].importance.den = top[1].importance.den /\ top[i].importance.den > 0

\* C6: for a valid schema predict answers with a probability in [0, 1], and
\* when K is the number of features the importances are non-negative and sum
\* to 100.
C6_ProbabilityAndShares ==
    (Answered /\ ValidSchema(probe.data) /\ Variant(service) # "Unavailable") =>
        /\ Answer.ok
        /\ Answer.result.risk_score >= 0
        /\ Answer.result.risk_score <= ProbabilityScale
        /\ probe.k = FeatureCount =>
              /\ Len(Top) >= 1
              /\ OneDenominator(Top)
              /\ \A i \in DOMAIN Top : Top[i].importance.num >= 0
              /\ ShareSum(Top) = 100 * Top[1].importance.den

C6_Witness ==
    /\ Answered
    /\ probe.data = HighSchema
    /\ probe.k = FeatureCount
    /\ Answer.ok
    /\ Len(Top) > TopK

Below(p, h) == p * 100 < h * ProbabilityScale

TierOf(p) ==
    IF Below(p, 33) THEN "Low" ELSE IF Below(p, 67) THEN "Moderate" ELSE "High"

\* C8: categorize gives every probability of [0, 1] exactly one tier, Low on
\* [0, 0.33), Moderate on [0.33, 0.67), High on [0.67, 1]; the risk_level of a
\* response is the tier of its risk_score.
C8_Tiers ==
    /\ (probe.kind = "categorize" /\ probe.out # Null) =>
          /\ Get(probe.out) \in Tiers
          /\ Get(probe.out) = TierOf(probe.p)
    /\ (Answered /\ Answer.ok) =>
          /\ Answer.result.risk_level \in Tiers
          /\ Answer.result.risk_level = TierOf(Answer.result.risk_score)

C8_Witness ==
    /\ probe.kind = "categorize"
    /\ probe.p = 330
    /\ probe.out = Some("Moderate")

-----------------------------------------------------------------------------
(* Properties of the requests.                                             *)

InFlight == uploadReqs.live + uploadReqs.stale

\* C11: no request hangs.  The 'loading' view is always left, for 'result' or
\* 'manual'; every predict request settles, and the one that fails (the 30 s
\* timeout included) puts the App in 'manual' with the error set; every
\* upload settles and the card's in-progress indicator is cleared.
C11_NoRequestHangs ==
    /\ (currentState = "loading") ~> (currentState \in {"result", "manual"})
    /\ (predictReqs # {}) ~> (predictReqs = {})
    /\ isUploading ~> ~isUploading
    /\ (InFlight > 0) ~> (InFlight = 0)
    /\ [][/\ lastOp'.op = "predictSucceeded" => currentState' = "result"
          /\ lastOp'.op = "predictFailed" =>
                currentState' = "manual" /\ error' # Null]_vars

C11_Witness ==
    /\ lastOp.op = "predictFailed"
    /\ error = Some(FailureMessage.Timeout)
    /\ currentState = "manual"
    /\ predictReqs = {}

\* C12: nothing is retried.  A request is issued only by the user's submit
\* or drop; the step in which a request fails takes that request out of
\* flight, starts no other, and reports the failure once (one setError, or one
\* onError, with a message).
C12_NoRetry ==
    [][/\ lastOp'.op = "predictFailed" =>
            /\ predictReqs' \subseteq predictReqs
            /\ Cardinality(predictReqs') = Cardinality(predictReqs) - 1
            /\ InFlight' = InFlight
            /\ lastOp'.calls = <<"setError">>
            /\ error' # Null
       /\ lastOp'.op = "uploadFailed" =>
            /\ InFlight' = InFlight - 1
            /\ predictReqs' = predictReqs
            /\ lastOp'.calls = <<"onError">>
            /\ error' # Null
       /\ ~(predictReqs' \subseteq predictReqs) => lastOp'.op = "handleSubmit"
       /\ InFlight' > InFlight => lastOp'.op = "onDrop"]_vars

C12_Witness ==
    /\ lastOp.op = "uploadFailed"
    /\ InFlight = 0
    /\ predictReqs = {}
    /\ error # Null
    /\ \E r \in served : TRUE

-----------------------------------------------------------------------------
(* Properties of the upload and of the extraction.                         *)

\* An upload that failed, reported failure, or carried no extracted data.
NoData(outcome) ==
    \/ ~outcome.resolved
    \/ ~Get(outcome.result).success
    \/ Get(outcome.result).extracted_data = Null

\* C13: a document from which nothing is recovered is answered with a
\* result of confidence 0 and no fields, not with a failure; the step in
\* which an upload without data settles leaves the view, the prediction and
\* the extracted data as they were, and from 'upload' the manual form can
\* always be opened.
C13_FallBackToManual ==
    /\ [](\A g \in DOMAIN ContentType :
            LET out == Extract(BlankDocument(g), ContentType[g])
            IN  /\ out.ok
                /\ out.result.confidence.num = 0
                /\ DOMAIN out.result.fields = {})
    /\ [][(lastOp'.answer # Null /\ NoData(Get(lastOp'.answer))) =>
            /\ currentState' = currentState
            /\ prediction' = prediction
            /\ extractedData' = extractedData]_vars
    /\ [](currentState = "upload" => ENABLED EnterHealthData)

C13_Witness ==
    /\ lastOp.answer # Null
    /\ Get(lastOp.answer).resolved
    /\ ~Get(Get(lastOp.answer).result).success
    /\ Get(Get(lastOp.answer).result).extracted_data # Null
    /\ currentState = "upload"
    /\ extractedData = Null

Extracting == probe.kind = "extract" /\ probe.out # Null

\* C14: extract goes on only when the file's signature stands for the
\* declared type; on any mismatch it fails with UnsupportedFormat and gives
\* no result.
C14_SignatureDecides ==
    Extracting =>
        LET out == Get(probe.out)
            same == /\ probe.doc.signature \in DOMAIN ContentType
                    /\ ContentType[probe.doc.signature] = probe.declared
        IN  /\ ~same => (~out.ok /\ out.kind = "UnsupportedFormat"
                         /\ DOMAIN out = {"ok", "kind"})
            /\ same => (out.ok \/ out.kind # "UnsupportedFormat")

C14_Witness ==
    /\ Extracting
    /\ probe.doc.signature = "png"
    /\ probe.declared = "application/pdf"
    /\ DOMAIN probe.doc.scan = Fields
    /\ ~Get(probe.out).ok

\* C18: an extraction result has a confidence in [0, 1] that is the share
\* of the required fields it contains times their mean local confidence (0
\* when it contains none), and contains only values within their domains: a
\* match whose value is outside is left out.
C18_ConfidenceAndDomains ==
    (Extracting /\ Get(probe.out).ok) =>
        LET result == Get(probe.out).result
            found == Recovered(probe.doc)
            got == DOMAIN result.fields
            n == Cardinality(got)
            locals == SumOver(got, [f \in got |-> found[f].local])
            c == result.confidence
        IN  /\ c.den > 0 /\ c.num >= 0 /\ c.num <= c.den
            /\ n = 0 => c.num = 0
            /\ c.num * FeatureCount * 100 * n = c.den * n * locals
            /\ got \subseteq DOMAIN found
            /\ \A f \in got : InDomain(f, result.fields[f])
            /\ \A f \in got : result.fields[f] = found[f].value
            /\ \A f \in DOMAIN found : ~InDomain(f, found[f].value) => f \notin got

C18_Witness ==
    /\ Extracting
    /\ Get(probe.out).ok
    /\ DOMAIN Recovered(probe.doc) = {"age", "cholesterol", "stress_level"}
    /\ DOMAIN Get(probe.out).result.fields = {"cholesterol"}

Allowed(file) ==
    /\ file.type \in {"application/pdf", "image/jpeg", "image/png"}
    /\ file.size <= 10 * 1024 * 1024

AllowedIn(files) == {i \in DOMAIN files : Allowed(files[i])}

\* C15: an upload request is issued only by a drop, and only for the one
\* file of the drop that is a PDF, JPEG or PNG of at most 10 MB; a drop with
\* no such file, or with more than one, issues none.
C15_OnlyOneAllowedFile ==
    [][/\ lastOp'.op = "onDrop" =>
            /\ Len(lastOp'.sent) <= 1
            /\ \A i \in DOMAIN lastOp'.sent :
                  /\ Allowed(lastOp'.sent[i])
                  /\ \E j \in DOMAIN lastOp'.files : lastOp'.files[j] = lastOp'.sent[i]
            /\ lastOp'.issued <=> Len(lastOp'.sent) = 1
            /\ InFlight' = InFlight + Len(lastOp'.sent)
            /\ Cardinality(AllowedIn(lastOp'.files)) # 1 => lastOp'.sent = <<>>
       /\ InFlight' > InFlight => lastOp'.op = "onDrop"]_vars

C15_Witness ==
    /\ lastOp.op = "onDrop"
    /\ lastOp.files = <<File("application/pdf", MaxFileSize + 1)>>
    /\ ~lastOp.issued
    /\ InFlight = 1

\* C16: a drop with a file that the dropzone rejects (another type, over
\* 10 MB, more than one file) is reported: onError is called and the App's
\* error is set.
C16_RejectedDropReported ==
    [][(lastOp'.op = "onDrop" /\ Len(lastOp'.sent) < Len(lastOp'.files)) =>
            /\ lastOp'.calls = <<"onError">>
            /\ error' # Null]_vars

-----------------------------------------------------------------------------
(* Properties of the result view and of the reset.                         *)

TierEntry ==
    [Low |-> [description |-> "Your risk of heart disease is relatively low. Continue maintaining a healthy lifestyle.",
              color |-> "text-green-600 bg-green-50", icon |-> "check mark"],
     Moderate |-> [description |-> "Your risk of heart disease is moderate. Consider lifestyle changes and regular health checkups.",
                   color |-> "text-yellow-600 bg-yellow-50", icon |-> "warning sign"],
     High |-> [description |-> "Your risk of heart disease is high. Please consult a healthcare professional immediately.",
               color |-> "text-red-600 bg-red-50", icon |-> "rotating light"]]

\* C19: for the prediction in the result view, the risk level is one of
\* Low, Moderate, High, and the description, the colour and the icon shown
\* are the three entries of that tier; none is a default.
C19_OneTierShown ==
    currentState = "result" =>
        LET level == Get(prediction).risk_level
        IN  /\ level \in DOMAIN TierEntry
            /\ getRiskDescription(level) = TierEntry[level].description
            /\ getRiskColor(level) = TierEntry[level].color
            /\ getRiskIcon(level) = TierEntry[level].icon
            /\ getRiskDescription(level) # "Risk assessment completed."
            /\ getRiskColor(level) # "text-gray-600 bg-gray-50"
            /\ getRiskIcon(level) # "question mark"

C19_Witness ==
    /\ currentState = "result"
    /\ Get(prediction).risk_level = "Moderate"

SettleOps == {"handleDataExtracted", "uploadFailed", "predictSucceeded", "predictFailed"}

\* C20: 'Start New Assessment' puts the App in its initial state, and what
\* an earlier request produces does not come into the new assessment: a
\* request that settles right after the reset leaves the App as the reset
\* left it.
C20_NothingPersists ==
    [][/\ lastOp'.op = "handleReset" =>
            /\ currentState' = "upload"
            /\ prediction' = Null
            /\ error' = Null
            /\ extractedData' = Null
       /\ (lastOp.op = "handleReset" /\ lastOp'.op \in SettleOps) =>
            /\ currentState' = "upload"
            /\ prediction' = Null
            /\ error' = Null
            /\ extractedData' = Null]_vars

-----------------------------------------------------------------------------
(* Properties of the hand-over from the extraction to the form.            *)

\* C21: when an extraction opens the manual form, every field it set to a
\* value within its domain is the form's initial value, unchanged, and every
\* field it left unset has the form's default.
C21_ExtractedValuesKept ==
    [][(lastOp'.op = "handleDataExtracted" /\ currentState # "manual") =>
            LET data == Get(extractedData')
                form == Get(formData')
            IN  \A f \in Fields :
                    /\ (f \in DOMAIN data /\ InDomain(f, data[f])) => form[f] = data[f]
                    /\ f \notin DOMAIN data => form[f] = FormDefaults[f]]_vars

-----------------------------------------------------------------------------
(* Properties of the requests that settle late.                            *)

\* C22: 'result' is left only by handleReset; while the result is shown no
\* request that settles changes the view or the prediction shown.
C22_ResultLeftOnlyByReset ==
    [][currentState = "result" =>
            \/ lastOp'.op = "handleReset"
            \/ currentState' = "result" /\ prediction' = prediction]_vars

\* C23: at most one predict request is in flight, and the prediction shown
\* in 'result' answers the newest submission: no request submitted after it is
\* in flight or was answered.
C23_NewestResponseShown ==
    /\ Cardinality(predictReqs) <= 1
    /\ currentState = "result" =>
          /\ \A r \in predictReqs : r.id < Get(shownFor).id
          /\ \A s \in served : s.id <= Get(shownFor).id

\* C24: in the mounted upload card isUploading is true exactly while a
\* request of that card is in flight, and no upload is started while one is
\* in flight.
C24_UploadingWhileOutstanding ==
    /\ [](currentState = "upload" => (isUploading <=> uploadReqs.live > 0))
    /\ [][uploadReqs'.live > uploadReqs.live => uploadReqs.live = 0]_vars

-----------------------------------------------------------------------------
(* Properties of the callbacks.                                            *)

\* C25: an upload that settles ends in exactly one callback:
\* onDataExtracted if and only if the answer has success = true and carries
\* extracted_data, and then the App is in 'manual' with that data and no
\* error; otherwise onError, with the answer's message or the message of the
\* error thrown.
C25_OneCallbackPerUpload ==
    [][lastOp'.answer # Null =>
            LET o == Get(lastOp'.answer)
                ok == /\ o.resolved
                      /\ Get(o.result).success
                      /\ Get(o.result).extracted_data # Null
            IN  /\ Len(lastOp'.calls) = 1
                /\ InFlight' = InFlight - 1
                /\ ok <=> lastOp'.calls = <<"onDataExtracted">>
                /\ ~ok <=> lastOp'.calls = <<"onError">>
                /\ ok => /\ currentState' = "manual"
                         /\ extractedData' = Get(o.result).extracted_data
                         /\ error' = Null
                /\ (~ok /\ o.resolved) => error' = Some(Get(o.result).message)
                /\ ~o.resolved => error' = Some(o.message)]_vars

C25_Witness ==
    /\ lastOp.op = "handleDataExtracted"
    /\ Get(Get(lastOp.answer).result).extracted_data = Some(PartialSchema)
    /\ currentState = "manual"
    /\ extractedData = Some(PartialSchema)
    /\ error = Null

CheckOrder == <<"age", "cholesterol", "blood_pressure", "heart_rate", "stress_level",
                "blood_sugar", "exercise_hours">>

\* C26: a submission calls exactly one of onSubmit and onError, once:
\* onSubmit with the form's data as it is when the seven fields are within
\* their limits, otherwise onError with the message of the first field outside
\* them, in the order age, cholesterol, blood_pressure, heart_rate,
\* stress_level, blood_sugar, exercise_hours; isSubmitting is false afterwards.
C26_OneCallbackPerSubmit ==
    [][lastOp'.op = "handleSubmit" =>
            LET fd == Get(lastOp'.form)
                failing == {i \in DOMAIN CheckOrder :
                                fd[CheckOrder[i]] < MinOf[CheckOrder[i]]
                                    \/ fd[CheckOrder[i]] > MaxOf[CheckOrder[i]]}
                first == CHOOSE i \in failing : \A j \in failing : i <= j
            IN  /\ Len(lastOp'.calls) = 1
                /\ failing = {} =>
                      /\ lastOp'.calls = <<"onSubmit">>
                      /\ \E r \in predictReqs' \ predictReqs : r.data = fd
                /\ failing # {} =>
                      /\ lastOp'.calls = <<"onError">>
                      /\ error' = Some(RangeMessage[CheckOrder[first]])
                      /\ predictReqs' = predictReqs
                /\ isSubmitting' = FALSE]_vars

C26_Witness ==
    /\ AfterSubmit
    /\ Submitted.cholesterol = 99
    /\ Submitted.heart_rate = 201
    /\ lastOp.calls = <<"onError">>
    /\ error = Some(RangeMessage["cholesterol"])
    /\ ~isSubmitting

\* C27: when a predict request fails the App is in 'manual' and the form
\* holds the values that were submitted with that request.
C27_SubmittedValuesKept ==
    [][lastOp'.op = "predictFailed" =>
            /\ currentState' = "manual"
            /\ \A r \in predictReqs \ predictReqs' : formData' = Some(r.form)]_vars

\* C28: reporting an error changes only error (the view, the prediction and
\* the extracted data stay), and 'Enter Health Data' and 'Upload Health Report
\* Instead' change only the view: the error, the prediction and the extracted
\* data stay.
C28_OnlyErrorOnlyView ==
    [][/\ lastOp'.calls = <<"onError">> =>
            /\ error' # Null
            /\ currentState' = currentState
            /\ prediction' = prediction
            /\ extractedData' = extractedData
       /\ lastOp'.op = "enterHealthData" =>
            /\ currentState = "upload" /\ currentState' = "manual"
            /\ error' = error
            /\ prediction' = prediction
            /\ extractedData' = extractedData
       /\ lastOp'.op = "uploadInstead" =>
            /\ currentState = "manual" /\ currentState' = "upload"
            /\ error' = error
            /\ prediction' = prediction
            /\ extractedData' = extractedData]_vars

C28_Witness ==
    /\ lastOp.op = "uploadInstead"
    /\ currentState = "upload"
    /\ error = Some(RangeMessage["age"])

UserAction ==
    \/ \E files \in Drops : OnDrop(files)
    \/ UploadAnother
    \/ EnterHealthData
    \/ UploadInstead
    \/ \E f \in Continuous : \E text \in TypedTexts(f) : TypeNumber(f, text)
    \/ \E f \in CategoricalFields : \E item \in Enumeration[f] : SelectItem(f, item)
    \/ \E f \in BooleanFields : CheckBox(f, TRUE)
    \/ HandleSubmit
    \/ HandleReset

=============================================================================
